---- MODULE Spec2Model ----
(***************************************************************************)
(* Model of gpt-search: llmlib.py (split_separator, Openai, Llm) and the   *)
(* parts of gpt_search.py that drive it.                                   *)
(*                                                                         *)
(* A Python str is a sequence of one-character strings.  Exceptions are    *)
(* results whose status names the exception class.                         *)
(***************************************************************************)
EXTENDS Integers, Sequences, FiniteSets, TLC

(***************************************************************************)
(* Bounds of the model.                                                    *)
(***************************************************************************)
MaxTextLen == 4
MaxLimit == 3
MockMaxTokens == 5

\* The characters texts are built from: a letter, a blank, a newline, a hash.
Alphabet == {"a", " ", "\n", "#"}

\* Python's None; an optional integer n is <<n>>
None == <<>>

RECURSIVE SeqsUpTo(_)
SeqsUpTo(n) ==
  IF n = 0 THEN {<<>>}
  ELSE LET shorter == SeqsUpTo(n - 1)
       IN  shorter \cup {Append(s, c) : s \in {t \in shorter : Len(t) = n - 1}, c \in Alphabet}

Texts == SeqsUpTo(MaxTextLen)

SetMin(S) == CHOOSE x \in S : \A y \in S : x <= y
SetMax(S) == CHOOSE x \in S : \A y \in S : x >= y

\* s[i..j] as Python's s[i-1:j]
Slice(s, i, j) == IF i > j THEN <<>> ELSE SubSeq(s, i, j)

RECURSIVE Concat(_)
Concat(parts) == IF parts = <<>> THEN <<>> ELSE Head(parts) \o Concat(Tail(parts))

(***************************************************************************)
(* Results of a call: a returned value or a raised exception.              *)
(***************************************************************************)
Return(v) == [status |-> "return", value |-> v]
Raise(e) == [status |-> e, value |-> None]

(***************************************************************************)
(* The Api providers.  Openai is the provider of llmlib.py; Mock is        *)
(* another implementation of the abstract class Api, with a small context  *)
(* window.  The encoding of a provider is deterministic: "char" counts one *)
(* token per character, "word" one token per run of non-blank characters.  *)
(***************************************************************************)
Openai(model) == [class |-> "Openai", model |-> model]
Mock == [class |-> "Mock", model |-> "mock"]

Apis == {Openai("gpt-3.5-turbo"), Mock}

\* Openai.__repr__
repr(api) ==
  IF api.class = "Openai"
  THEN CASE api.model = "gpt-4" -> "Openai(model=gpt-4)"
         [] api.model = "gpt-3.5-turbo" -> "Openai(model=gpt-3.5-turbo)"
  ELSE "Mock()"

\* Openai.max_token_count
max_token_count(api) ==
  IF api.class = "Openai"
  THEN CASE api.model = "gpt-4" -> 8192
         [] api.model = "gpt-3.5-turbo" -> 4097
         [] OTHER -> 4096
  ELSE MockMaxTokens

IsSpace(c) == c \in {" ", "\n"}

\* number of maximal runs of non-blank characters
WordCount(s) ==
  Cardinality({i \in 1..Len(s) : ~IsSpace(s[i]) /\ (i = 1 \/ IsSpace(s[i - 1]))})

encoding_for_model(api) == IF api.class = "Openai" THEN "char" ELSE "word"

\* Api.token_count
token_count(api, s) ==
  IF encoding_for_model(api) = "char" THEN Len(s) ELSE WordCount(s)

(***************************************************************************)
(* Separator rules.  A rule is a regular expression of llmlib.py; groups   *)
(* lists its capture groups in order, each holding the whole match or the  *)
(* empty string; re.split returns one list element per group.              *)
(***************************************************************************)
Paragraph2 == [re |-> "(\\n(?:\\s*\\n)+)()", kind |-> "paragraph", level |-> 0, groups |-> <<"match", "empty">>]
Lines2 == [re |-> "(\\n+)()", kind |-> "lines", level |-> 0, groups |-> <<"match", "empty">>]
Blank2 == [re |-> "(\\s+)()", kind |-> "blank", level |-> 0, groups |-> <<"match", "empty">>]
HeaderRe(n) ==
  CASE n = 1 -> "()(^# .*$)"
    [] n = 2 -> "()(^## .*$)"
    [] n = 3 -> "()(^### .*$)"
    [] n = 4 -> "()(^#### .*$)"
Header(n) == [re |-> HeaderRe(n), kind |-> "header", level |-> n, groups |-> <<"empty", "match">>]
Paragraph1 == [re |-> "(\\n(?:\\s*\\n)+)", kind |-> "paragraph", level |-> 0, groups |-> <<"match">>]
Lines1 == [re |-> "(\\n+)", kind |-> "lines", level |-> 0, groups |-> <<"match">>]
Blank1 == [re |-> "(\\s+)", kind |-> "blank", level |-> 0, groups |-> <<"match">>]

\* the default of the parameter separators of Llm.split_text
DefaultSeparators == <<Paragraph2, Lines2, Blank2>>

\* the separators Llm.split_markdown passes
MarkdownSeparators ==
  <<Header(1), Header(2), Header(3), Header(4), Paragraph1, Lines1, Blank1>>

\* The ends j of the matches of the rule that start at i, for i..j in s.
MatchEnds(rule, s, i) ==
  CASE rule.kind = "paragraph" ->
         {j \in (i + 1)..Len(s) :
            /\ s[i] = "\n"
            /\ s[j] = "\n"
            /\ \A k \in i..j : IsSpace(s[k])}
    [] rule.kind = "lines" ->
         {j \in i..Len(s) : \A k \in i..j : s[k] = "\n"}
    [] rule.kind = "blank" ->
         {j \in i..Len(s) : \A k \in i..j : IsSpace(s[k])}
    [] rule.kind = "header" ->
         {j \in (i + rule.level)..Len(s) :
            /\ i = 1 \/ s[i - 1] = "\n"
            /\ \A k \in i..(i + rule.level - 1) : s[k] = "#"
            /\ s[i + rule.level] = " "
            /\ \A k \in i..j : s[k] # "\n"
            /\ j = Len(s) \/ s[j + 1] = "\n"}

\* re.search: the leftmost match, greedy; <<0, 0>> when there is none.
Search(rule, s) ==
  LET starts == {i \in 1..Len(s) : MatchEnds(rule, s, i) # {}}
  IN  IF starts = {} THEN <<0, 0>>
      ELSE LET i == SetMin(starts) IN <<i, SetMax(MatchEnds(rule, s, i))>>

\* re.split(separator, s, maxsplit=1, flags=re.MULTILINE)
re_split(rule, s) ==
  LET m == Search(rule, s)
      before == Slice(s, 1, m[1] - 1)
      matched == Slice(s, m[1], m[2])
      after == Slice(s, m[2] + 1, Len(s))
      captured == [g \in 1..Len(rule.groups) |->
                     IF rule.groups[g] = "match" THEN matched ELSE <<>>]
  IN  IF m = <<0, 0>> THEN <<s>> ELSE <<before>> \o captured \o <<after>>

\* the while loop of split_separator
RECURSIVE split_loop(_, _, _, _)
split_loop(parts, remainder, before_remainder, separator) ==
  IF remainder = <<>> THEN Return(parts)
  ELSE LET split == re_split(separator, remainder)
       IN  IF Len(split) = 1
           THEN Return(Append(parts, before_remainder \o remainder))
           ELSE IF Len(split) # 4 THEN Raise("ValueError")
           ELSE split_loop(Append(parts, before_remainder \o split[1] \o split[2]),
                           split[4], split[3], separator)

split_separator(text, separator) == split_loop(<<>>, text, <<>>, separator)

\* merge_loop with a merged part overwriting the accumulator
RECURSIVE merge_loop_overwrite(_, _, _, _)
merge_loop_overwrite(api, parts, short_parts, token_limit) ==
  IF short_parts = <<>> THEN parts
  ELSE LET part == Head(short_parts)
           n == Len(parts)
       IN  IF parts # <<>> /\ token_count(api, parts[n] \o part) <= token_limit
           THEN merge_loop_overwrite(api, [parts EXCEPT ![n] = part],
                                     Tail(short_parts), token_limit)
           ELSE merge_loop_overwrite(api, Append(parts, part), Tail(short_parts),
                                     token_limit)

\* merge_loop joining a part only when the sum stays under the limit
RECURSIVE merge_loop_strict(_, _, _, _)
merge_loop_strict(api, parts, short_parts, token_limit) ==
  IF short_parts = <<>> THEN parts
  ELSE LET part == Head(short_parts)
           n == Len(parts)
       IN  IF parts # <<>> /\ token_count(api, parts[n] \o part) < token_limit
           THEN merge_loop_strict(api, [parts EXCEPT ![n] = parts[n] \o part],
                                  Tail(short_parts), token_limit)
           ELSE merge_loop_strict(api, Append(parts, part), Tail(short_parts),
                                  token_limit)

\* the second loop of Llm.split_text
RECURSIVE merge_loop(_, _, _, _)
merge_loop(api, parts, short_parts, token_limit) ==
  IF short_parts = <<>> THEN parts
  ELSE LET part == Head(short_parts)
           n == Len(parts)
       IN  IF parts # <<>> /\ token_count(api, parts[n] \o part) <= token_limit
           THEN merge_loop(api, [parts EXCEPT ![n] = parts[n] \o part],
                           Tail(short_parts), token_limit)
           ELSE merge_loop(api, Append(parts, part), Tail(short_parts), token_limit)

merge(api, short_parts, token_limit) == merge_loop(api, <<>>, short_parts, token_limit)

\* Llm.split_text; the first loop is short_loop
RECURSIVE split_text(_, _, _, _)

\* short_loop letting a part one token over the limit through
RECURSIVE short_loop_lax(_, _, _, _, _)
extend_lax(api, short_parts, todo, token_limit, separators, sub) ==
  IF sub.status # "return" THEN sub
  ELSE short_loop_lax(api, short_parts \o sub.value, Tail(todo), token_limit, separators)

short_loop_lax(api, short_parts, todo, token_limit, separators) ==
  IF todo = <<>> THEN Return(short_parts)
  ELSE IF token_count(api, Head(todo)) > token_limit + 1
       THEN extend_lax(api, short_parts, todo, token_limit, separators,
                       split_text(api, Head(todo), <<token_limit>>, Tail(separators)))
       ELSE short_loop_lax(api, Append(short_parts, Head(todo)), Tail(todo),
                           token_limit, separators)

RECURSIVE short_loop(_, _, _, _, _)

\* short_parts.extend(sub), unless the recursive call raised
extend(api, short_parts, todo, token_limit, separators, sub) ==
  IF sub.status # "return" THEN sub
  ELSE short_loop(api, short_parts \o sub.value, Tail(todo), token_limit, separators)

short_loop(api, short_parts, todo, token_limit, separators) ==
  IF todo = <<>> THEN Return(short_parts)
  ELSE IF token_count(api, Head(todo)) > token_limit
       THEN extend(api, short_parts, todo, token_limit, separators,
                   split_text(api, Head(todo), <<token_limit>>, Tail(separators)))
       ELSE short_loop(api, Append(short_parts, Head(todo)), Tail(todo),
                       token_limit, separators)

\* the first loop over the parts split_separator returns, unless it raised
short_of(api, first, token_limit, separators) ==
  IF first.status # "return" THEN first
  ELSE short_loop(api, <<>>, first.value, token_limit, separators)

short_parts_of(api, text, token_limit, separators) ==
  IF separators = <<>> THEN Raise("IndexError")
  ELSE short_of(api, split_separator(text, separators[1]), token_limit, separators)

\* `if token_limit is None: token_limit = self.api.max_token_count()`
limit_or_max(api, token_limit_arg) ==
  IF token_limit_arg = None THEN max_token_count(api) ELSE token_limit_arg[1]

\* the second loop over the short parts, unless the first loop raised
merged(api, short, token_limit) ==
  IF short.status # "return" THEN short
  ELSE Return(merge(api, short.value, token_limit))

split_text(api, text, token_limit_arg, separators) ==
  merged(api,
         short_parts_of(api, text, limit_or_max(api, token_limit_arg), separators),
         limit_or_max(api, token_limit_arg))

\* Llm.split_markdown
split_markdown(api, text, token_limit) ==
  split_text(api, text, token_limit, MarkdownSeparators)

(***************************************************************************)
(* State.  api, cache and counters are the fields of the Llm object (the   *)
(* cache is on disk and outlives the object); frame is the activation of   *)
(* Llm.summarize in progress; the other variables record the calls made    *)
(* and what they returned.                                                 *)
(***************************************************************************)
VARIABLES api, cache, counters, frame, provider_asks, ask_count, last_ask,
          last, calls, args, out, threads, search

llmVars == <<cache, counters, frame, provider_asks, ask_count, last_ask, last, calls>>
splitVars == <<args, out>>
restVars == <<threads, search>>
vars == <<api, cache, counters, frame, provider_asks, ask_count, last_ask,
          last, calls, args, out, threads, search>>

Idle == [pc |-> "idle"]
NoCall == [op |-> "none"]

\* no concurrent callers and no GptSearch call
RestInit ==
  /\ threads = <<>>
  /\ search = Idle

\* Llm.__init__, on a cache directory that holds nothing yet
LlmInit ==
  /\ cache = <<>>
  /\ counters = <<>>
  /\ frame = Idle
  /\ provider_asks = 0
  /\ ask_count = 0
  /\ last_ask = NoCall
  /\ last = NoCall
  /\ calls = 0

(***************************************************************************)
(* The splitting functions applied to bounded inputs.                      *)
(***************************************************************************)
Limits == {None} \cup {<<n>> : n \in 1..MaxLimit}

\* hierarchies of rules with two capture groups, the default one included
Hierarchies == {DefaultSeparators, <<Header(1), Header(2), Blank2>>, <<Blank2>>}

Rules == {Paragraph2, Lines2, Blank2, Header(1), Header(2)}

limit_of(token_limit_arg) == limit_or_max(api, token_limit_arg)

SplitInit ==
  /\ api \in Apis
  /\ args \in [text : Texts, token_limit : Limits, separators : Hierarchies]
  /\ out = NoCall
  /\ LlmInit
  /\ RestInit

CallSplitText ==
  /\ out = NoCall
  /\ out' = [op |-> "split_text",
              short |-> short_parts_of(api, args.text, limit_of(args.token_limit), args.separators),
              result |-> split_text(api, args.text, args.token_limit, args.separators)]
  /\ UNCHANGED <<api, args, llmVars, restVars>>

CallSplitMarkdown ==
  /\ out = NoCall
  /\ out' = [op |-> "split_markdown",
              short |-> short_parts_of(api, args.text, limit_of(args.token_limit), MarkdownSeparators),
              result |-> split_markdown(api, args.text, args.token_limit)]
  /\ UNCHANGED <<api, args, llmVars, restVars>>

CallSplitSeparator ==
  /\ out = NoCall
  /\ \E rule \in Rules :
       out' = [op |-> "split_separator", rule |-> rule,
               result |-> split_separator(args.text, rule)]
  /\ UNCHANGED <<api, args, llmVars, restVars>>

SplitNext == CallSplitText \/ CallSplitMarkdown \/ CallSplitSeparator

SpecSplit == SplitInit /\ [][SplitNext]_vars

(***************************************************************************)
(* Llm.ask and Llm.summarize.                                              *)
(***************************************************************************)
MaxCalls == 2
MaxIterations == 2

\* the floor of `assert len(prompt) > 25`
MinPromptLen == 25

Repeat(c, n) == [i \in 1..n |-> c]

\* "Summarize:", the default of the parameter prompt of Llm.summarize
DefaultPrompt == <<"S", "u", "m", "m", "a", "r", "i", "z", "e", ":">>

\* "Summarize the following text:", a template a caller passes
LongPrompt ==
  <<"S", "u", "m", "m", "a", "r", "i", "z", "e", " ", "t", "h", "e", " ",
    "f", "o", "l", "l", "o", "w", "i", "n", "g", " ", "t", "e", "x", "t", ":">>

Prompts == {DefaultPrompt, LongPrompt}

\* prompts passed to Llm.ask directly: "", and two around the floor
AskPrompts == {<<>>, Repeat("a", MinPromptLen), Repeat("a", MinPromptLen + 1)}

\* texts passed to Llm.summarize: "", "a a a", "aaaa"
SummaryTexts ==
  {<<>>, <<"a", " ", "a", " ", "a">>, <<"a", "a", "a", "a">>}

\* the max_iterations passed to Llm.summarize
Iterations == {0, MaxIterations}

\* what the provider's ask answers: "" or "a"; or it raises
Responses == {<<>>, <<"a">>}
Replies == {Return(r) : r \in Responses} \cup {Raise("InvalidRequestError")}

\* the counter names f"ask-{self.api!r}", ...-hit, ...-miss
counter_name(a, suffix) == <<"ask", repr(a), suffix>>

\* Llm.increment_counter
increment_counter(cnt, name) ==
  LET withdefault == IF name \in DOMAIN cnt THEN cnt ELSE cnt @@ (name :> 0)
  IN  [withdefault EXCEPT ![name] = @ + 1]

\* Cache.get: the stored value, or None (which the model does not tell
\* from "", both being false in `if result:`)
cache_get(c, key) == IF key \in DOMAIN c THEN c[key] ELSE None

\* a store that keeps the value a key already has
cache_set_keep(c, key, value) == c @@ (key :> value)

\* Cache.__setitem__
cache_set(c, key, value) == (key :> value) @@ c

\* the truth value of a str or None
Truthy(v) == v # <<>>

\* the validation with the floor one character lower
valid_prompt_lax(prompt) == Len(prompt) >= MinPromptLen

\* the validation of Llm.ask
valid_prompt(prompt) == Len(prompt) > MinPromptLen

cache_key(a, prompt) == <<"ask", repr(a), prompt>>

\* Llm.ask counting the miss only after the provider has answered
ask_counts_late(prompt, reply) ==
  IF ~valid_prompt(prompt)
  THEN [result |-> Raise("AssertionError"), cache |-> cache, counters |-> counters,
        invoked |-> FALSE, hit |-> FALSE]
  ELSE LET key == cache_key(api, prompt)
           result == cache_get(cache, key)
           total == increment_counter(counters, counter_name(api, ""))
       IN  IF Truthy(result)
           THEN [result |-> Return(result),
                 cache |-> cache_set(cache, key, result),
                 counters |-> increment_counter(total, counter_name(api, "hit")),
                 invoked |-> FALSE, hit |-> TRUE]
           ELSE IF reply.status # "return"
           THEN [result |-> reply,
                 cache |-> cache,
                 counters |-> total,
                 invoked |-> TRUE, hit |-> FALSE]
           ELSE [result |-> reply,
                 cache |-> cache_set(cache, key, reply.value),
                 counters |-> increment_counter(total, counter_name(api, "miss")),
                 invoked |-> TRUE, hit |-> FALSE]

\* Llm.ask on the current api, cache and counters; reply is what the
\* provider's ask does if it is invoked
ask(prompt, reply) ==
  IF ~valid_prompt(prompt)
  THEN [result |-> Raise("AssertionError"), cache |-> cache, counters |-> counters,
        invoked |-> FALSE, hit |-> FALSE]
  ELSE LET key == cache_key(api, prompt)
           result == cache_get(cache, key)
           total == increment_counter(counters, counter_name(api, ""))
       IN  IF Truthy(result)
           THEN [result |-> Return(result),
                 cache |-> cache_set(cache, key, result),
                 counters |-> increment_counter(total, counter_name(api, "hit")),
                 invoked |-> FALSE, hit |-> TRUE]
           ELSE IF reply.status # "return"
           THEN [result |-> reply,
                 cache |-> cache,
                 counters |-> increment_counter(total, counter_name(api, "miss")),
                 invoked |-> TRUE, hit |-> FALSE]
           ELSE [result |-> reply,
                 cache |-> cache_set(cache, key, reply.value),
                 counters |-> increment_counter(total, counter_name(api, "miss")),
                 invoked |-> TRUE, hit |-> FALSE]

\* what an ask leaves in the variables that record calls
AskRecord(prompt, r) ==
  [op |-> "ask", api |-> api, key |-> cache_key(api, prompt), prompt |-> prompt,
   result |-> r.result, hit |-> r.hit, invoked |-> r.invoked]

\* a top-level call of Llm.ask
Ask(prompt, reply) ==
  /\ frame = Idle
  /\ calls < MaxCalls
  /\ LET r == ask(prompt, reply)
     IN  /\ cache' = r.cache
         /\ counters' = r.counters
         /\ provider_asks' = provider_asks + (IF r.invoked THEN 1 ELSE 0)
         /\ last_ask' = AskRecord(prompt, r)
         /\ last' = AskRecord(prompt, r)
  /\ ask_count' = ask_count + 1
  /\ calls' = calls + 1
  /\ UNCHANGED <<api, frame, splitVars, restVars>>

\* a join with a single newline between the replies
RECURSIVE join_newline(_)
join_newline(replies) ==
  IF replies = <<>> THEN <<>>
  ELSE IF Len(replies) = 1 THEN replies[1]
  ELSE replies[1] \o <<"\n">> \o join_newline(Tail(replies))

\* "\n\n".join(replies)
RECURSIVE join(_)
join(replies) ==
  IF replies = <<>> THEN <<>>
  ELSE IF Len(replies) = 1 THEN replies[1]
  ELSE replies[1] \o <<"\n", "\n">> \o join(Tail(replies))

\* the token limit Llm.summarize works with
effective_limit(a, token_limit_arg, prompt) ==
  LET max_tokens == max_token_count(a) - token_count(a, prompt)
  IN  IF token_limit_arg = None THEN max_tokens
      ELSE IF token_limit_arg[1] <= max_tokens THEN token_limit_arg[1] ELSE max_tokens

\* a range of max_iterations + 1 iterations
range_exhausted_late(remaining) == remaining < 0

\* `for _ in range(max_iterations)` has no iteration left
range_exhausted(remaining) == remaining <= 0

\* the break test with < for <=
fits_strictly(a, text, token_limit) == token_count(a, text) < token_limit

\* the break test of the loop of Llm.summarize
fits(a, text, token_limit) == token_count(a, text) <= token_limit

\* Llm.summarize is called: the lines before the loop
Summarize(text, token_limit_arg, prompt, max_iterations) ==
  /\ frame = Idle
  /\ calls < MaxCalls
  /\ frame' = [pc |-> "loop", text |-> text, prompt |-> prompt,
               token_limit |-> effective_limit(api, token_limit_arg, prompt),
               remaining |-> max_iterations, parts |-> <<>>, replies |-> <<>>,
               segments |-> <<>>,
               text_arg |-> text, token_limit_arg |-> token_limit_arg,
               max_iterations |-> max_iterations, rounds |-> 0, asks |-> 0,
               planned |-> 0,
               provider_failed |-> FALSE, completed |-> {},
               cache0 |-> cache, counters0 |-> counters, provider_asks0 |-> provider_asks]
  /\ calls' = calls + 1
  /\ UNCHANGED <<api, cache, counters, provider_asks, ask_count, last_ask, last, splitVars, restVars>>

\* the test `if result:` Llm.ask makes on what self.cache.get returns
is_hit(c, key) == Truthy(cache_get(c, key))

\* Llm.summarize returns or raises: what the call leaves behind
Finished(f, result, cache1, counters1, provider_asks1) ==
  [op |-> "summarize", api |-> api, text |-> f.text_arg, token_limit |-> f.token_limit_arg,
   prompt |-> f.prompt, max_iterations |-> f.max_iterations,
   result |-> result, rounds |-> f.rounds, asks |-> f.asks, planned |-> f.planned,
   provider_failed |-> f.provider_failed,
   completed |-> f.completed,
   present |-> \A key \in f.completed : key \in DOMAIN cache1,
   servable |-> \A key \in f.completed : is_hit(cache1, key),
   untouched |-> (cache1 = f.cache0 /\ counters1 = f.counters0
                    /\ provider_asks1 = f.provider_asks0)]

\* the head of the loop: leave it, or split the text for a round of asks
SummarizeLoop ==
  /\ frame.pc = "loop"
  /\ IF range_exhausted(frame.remaining) \/ fits(api, frame.text, frame.token_limit)
     THEN /\ frame' = Idle
          /\ last' = Finished(frame, Return(frame.text), cache, counters, provider_asks)
     ELSE LET split == split_text(api, frame.text, <<frame.token_limit>>, DefaultSeparators)
          IN  IF split.status # "return"
              THEN /\ frame' = Idle
                   /\ last' = Finished([frame EXCEPT !.rounds = @ + 1], split,
                                       cache, counters, provider_asks)
              ELSE IF split.value = <<>>
              THEN /\ frame' = [frame EXCEPT !.text = join(<<>>), !.remaining = @ - 1,
                                             !.rounds = @ + 1]
                   /\ UNCHANGED last
              ELSE /\ frame' = [frame EXCEPT !.pc = "asking", !.parts = split.value,
                                             !.segments = split.value,
                                             !.replies = <<>>, !.rounds = @ + 1,
                                             !.planned = @ + Len(split.value)]
                   /\ UNCHANGED last
  /\ UNCHANGED <<api, cache, counters, provider_asks, ask_count, last_ask, calls, splitVars, restVars>>

\* the next self.ask(f"{prompt} {part}") of the round; after the last one
\* the replies are joined into the next text
SummarizeAsk(reply) ==
  /\ frame.pc = "asking"
  /\ LET prompt == frame.prompt \o <<" ">> \o Head(frame.parts)
         r == ask(prompt, reply)
         f == [frame EXCEPT !.asks = @ + 1,
                            !.provider_failed = @ \/ (r.invoked /\ r.result.status # "return"),
                            !.completed = IF r.result.status = "return"
                                          THEN @ \cup {cache_key(api, prompt)} ELSE @]
         replies == Append(frame.replies, r.result.value)
     IN  /\ cache' = r.cache
         /\ counters' = r.counters
         /\ provider_asks' = provider_asks + (IF r.invoked THEN 1 ELSE 0)
         /\ last_ask' = AskRecord(prompt, r)
         /\ IF r.result.status # "return"
            THEN /\ frame' = Idle
                 /\ last' = Finished(f, r.result, r.cache, r.counters, provider_asks')
            ELSE IF Tail(frame.parts) = <<>>
            THEN /\ frame' = [f EXCEPT !.pc = "loop", !.text = join(replies),
                                       !.remaining = @ - 1, !.parts = <<>>,
                                       !.replies = <<>>, !.segments = <<>>]
                 /\ UNCHANGED last
            ELSE /\ frame' = [f EXCEPT !.parts = Tail(@), !.replies = replies]
                 /\ UNCHANGED last
  /\ ask_count' = ask_count + 1
  /\ UNCHANGED <<api, calls, splitVars, restVars>>

\* the process ends and a new one constructs Llm(api): the counters start
\* empty, the cache directory is the same
Restart(a) ==
  /\ frame = Idle
  /\ calls < MaxCalls
  /\ api' = a
  /\ counters' = <<>>
  /\ calls' = calls + 1
  /\ UNCHANGED <<cache, frame, provider_asks, ask_count, last_ask, last, splitVars, restVars>>

Init ==
  /\ api \in Apis
  /\ LlmInit
  /\ RestInit
  /\ args = [text |-> <<>>, token_limit |-> None, separators |-> DefaultSeparators]
  /\ out = NoCall

Next ==
  \/ \E prompt \in AskPrompts, reply \in Replies : Ask(prompt, reply)
  \/ \E text \in SummaryTexts, token_limit \in Limits, prompt \in Prompts,
        max_iterations \in Iterations :
       Summarize(text, token_limit, prompt, max_iterations)
  \/ SummarizeLoop
  \/ \E reply \in Replies : SummarizeAsk(reply)
  \/ \E a \in Apis : Restart(a)

Spec == Init /\ [][Next]_vars

(***************************************************************************)
(* Properties of the splitting functions, under SpecSplit.                 *)
(***************************************************************************)
SplitCalled == out.op \in {"split_text", "split_markdown"}
TextLimit == limit_of(args.token_limit)
HasBlank(s) == \E i \in 1..Len(s) : IsSpace(s[i])

\* C1: the segments split_text, split_markdown and split_separator return,
\* concatenated in order, are the text they were given.
LosslessSplit ==
  (out.op # "none" /\ out.result.status = "return")
    => Concat(out.result.value) = args.text

\* C2: split_text never raises, and a text with no blank in it that exceeds
\* the token limit comes back as the single segment <<text>>.
OverflowLeaf ==
  out.op = "split_text" =>
    /\ out.result.status = "return"
    /\ (~HasBlank(args.text) /\ token_count(api, args.text) > TextLimit)
         => out.result.value = <<args.text>>

\* C3: every segment split_text returns has at most token_limit tokens.
SplitBudget ==
  (SplitCalled /\ out.result.status = "return")
    => \A i \in 1..Len(out.result.value) :
         token_count(api, out.result.value[i]) <= TextLimit

\* an over-limit text was split by a finer rule and merged back into
\* several segments
SplitBudgetWitness ==
  /\ out.op = "split_text"
  /\ out.result.status = "return"
  /\ token_count(api, args.text) > TextLimit
  /\ Len(out.result.value) >= 2
  /\ \E i \in 1..Len(out.result.value) :
       token_count(api, out.result.value[i]) = TextLimit

\* C10: the merge pass returns a regrouping of the short parts: the same
\* concatenation, in no more segments.
MergeRegroups ==
  (SplitCalled /\ out.short.status = "return")
    => /\ out.result.status = "return"
       /\ Concat(out.result.value) = Concat(out.short.value)
       /\ Len(out.result.value) <= Len(out.short.value)

\* the merge pass joined some short parts and left others apart
MergeRegroupsWitness ==
  /\ SplitCalled
  /\ out.short.status = "return"
  /\ out.result.status = "return"
  /\ Len(out.result.value) >= 2
  /\ Len(out.result.value) < Len(out.short.value)

\* the index in short of the last short part of segment i, when cuts holds
\* the indexes after which a new segment starts
GroupEnd(cuts, n, i) ==
  CHOOSE e \in cuts \cup {n} : Cardinality({c \in cuts \cup {n} : c <= e}) = i

\* the index in short of the first short part of segment i
GroupStart(cuts, n, i) == IF i = 1 THEN 1 ELSE GroupEnd(cuts, n, i - 1) + 1

\* parts is short grouped at cuts, each group filled as far as the limit
\* allows: every short part but the first of a group fitted when it was
\* added, and the first short part of the next group did not fit
GreedyGrouping(a, short, parts, cuts, limit) ==
  LET n == Len(short)
  IN  \A i \in 1..Len(parts) :
        LET first == GroupStart(cuts, n, i)
            end == GroupEnd(cuts, n, i)
        IN  /\ parts[i] = Concat(SubSeq(short, first, end))
            /\ \A k \in (first + 1)..end :
                  token_count(a, Concat(SubSeq(short, first, k))) <= limit
            /\ i < Len(parts) =>
                  token_count(a, parts[i] \o short[end + 1]) > limit

\* C16: the segments returned are the short parts in order, grouped so that
\* a short part joins the segment before it exactly when the two together
\* count at most token_limit tokens; a segment followed by the first short
\* part of the next segment counts more than token_limit.
GreedyMerge ==
  (SplitCalled /\ out.short.status = "return" /\ out.result.status = "return") =>
    LET short == out.short.value
        parts == out.result.value
    IN  IF short = <<>> THEN parts = <<>>
        ELSE \E cuts \in SUBSET (1..(Len(short) - 1)) :
               /\ Cardinality(cuts) = Len(parts) - 1
               /\ GreedyGrouping(api, short, parts, cuts, TextLimit)

\* a segment was filled to the limit exactly and the next short part
\* started a new segment
GreedyMergeWitness ==
  /\ SplitCalled
  /\ out.short.status = "return"
  /\ out.result.status = "return"
  /\ Len(out.result.value) < Len(out.short.value)
  /\ \E i \in 1..(Len(out.result.value) - 1) :
       /\ token_count(api, out.result.value[i]) = TextLimit
       /\ out.result.value[i] \notin {out.short.value[k] : k \in 1..Len(out.short.value)}

(***************************************************************************)
(* Properties of Llm.ask and Llm.summarize, under Spec.                    *)
(***************************************************************************)
Count(cnt, name) == IF name \in DOMAIN cnt THEN cnt[name] ELSE 0

\* the step is one Llm.ask, top-level or made by Llm.summarize
AskStep == ask_count' = ask_count + 1

NoOpResult ==
  /\ last.result = Return(last.text)
  /\ last.asks = 0
  /\ last.untouched

\* C4 as stated: a text of at most token_limit tokens is returned unchanged
\* by summarize(text, token_limit=budget), with no ask, no provider call, no
\* cache write and no counter change.
NoOpShortcutAsStated ==
  (/\ last.op = "summarize"
   /\ last.token_limit # None
   /\ token_count(last.api, last.text) <= last.token_limit[1])
    => NoOpResult

\* C4 amended: a text of at most min(token_limit, max_token_count() -
\* token_count(prompt)) tokens (the latter alone when token_limit is None) is
\* returned unchanged, with no ask, no provider call, no cache write and no
\* counter change.
NoOpShortcut ==
  (/\ last.op = "summarize"
   /\ token_count(last.api, last.text)
        <= effective_limit(last.api, last.token_limit, last.prompt))
    => NoOpResult

\* a non-empty text that fits was passed with iterations to spare, to an Llm
\* whose cache had entries
NoOpShortcutWitness ==
  /\ last.op = "summarize"
  /\ last.text # <<>>
  /\ last.token_limit # None
  /\ last.max_iterations > 0
  /\ token_count(last.api, last.text)
       = effective_limit(last.api, last.token_limit, last.prompt)
  /\ cache # <<>>
  /\ NoOpResult

\* C5: of two successive ask(p) that return, with the same identity, the
\* second returns the string the first returned and counts a hit and no
\* miss; both count in the total; on an empty cache a valid ask counts a miss.
CacheDeterminism ==
  [][AskStep =>
       /\ (/\ last_ask.op = "ask"
           /\ last_ask.result.status = "return"
           /\ last_ask'.result.status = "return"
           /\ last_ask'.key = last_ask.key)
            => /\ last_ask'.result.value = last_ask.result.value
               /\ Count(counters', counter_name(api, "hit"))
                    = Count(counters, counter_name(api, "hit")) + 1
               /\ Count(counters', counter_name(api, "miss"))
                    = Count(counters, counter_name(api, "miss"))
               /\ Count(counters', counter_name(api, ""))
                    = Count(counters, counter_name(api, "")) + 1
       /\ (cache = <<>> /\ last_ask'.result.status # "AssertionError")
            => Count(counters', counter_name(api, "miss"))
                 = Count(counters, counter_name(api, "miss")) + 1]_vars

RoundsBounded ==
  /\ frame.pc # "idle" => frame.rounds <= frame.max_iterations
  /\ frame.pc = "asking" => frame.parts # <<>>
  /\ last.op = "summarize" => last.rounds <= last.max_iterations

\* each step inside a call of summarize brings its end nearer: fewer
\* iterations left, or the same and fewer parts left to ask
NearerTheEnd ==
  (frame.pc # "idle" /\ frame'.pc # "idle") =>
    \/ frame'.remaining < frame.remaining
    \/ /\ frame'.remaining = frame.remaining
       /\ frame.pc = "loop"
       /\ frame'.pc = "asking"
    \/ /\ frame'.remaining = frame.remaining
       /\ frame.pc = "asking"
       /\ frame'.pc = "asking"
       /\ Len(frame'.parts) < Len(frame.parts)

\* C6: a call of summarize makes at most max_iterations rounds of
\* split-and-ask, whatever the provider answers, and each of its steps
\* brings its return nearer.
BoundedIteration == []RoundsBounded /\ [][NearerTheEnd]_vars

\* every round of a call was used and the text returned is still over the
\* limit
BoundedIterationWitness ==
  /\ last.op = "summarize"
  /\ last.max_iterations >= 2
  /\ last.rounds = last.max_iterations
  /\ last.result.status = "return"
  /\ token_count(last.api, last.result.value)
       > effective_limit(last.api, last.token_limit, last.prompt)

\* C7: when the provider's ask never fails, summarize with a budget of at
\* least 1 returns a text and does not raise.
BestEffortReturn ==
  (/\ last.op = "summarize"
   /\ ~last.provider_failed
   /\ last.token_limit # None => last.token_limit[1] >= 1)
    => last.result.status = "return"

\* C8: an ask whose prompt has at most 25 characters raises the validation
\* error and leaves the cache, the counters and the provider alone.
ValidationFloor ==
  [][(AskStep /\ Len(last_ask'.prompt) <= MinPromptLen) =>
       /\ last_ask'.result.status = "AssertionError"
       /\ ~last_ask'.invoked
       /\ cache' = cache
       /\ counters' = counters
       /\ provider_asks' = provider_asks]_vars

\* a prompt of exactly 25 characters was refused by an Llm whose cache had
\* entries
ValidationFloorWitness ==
  /\ last_ask.op = "ask"
  /\ Len(last_ask.prompt) = MinPromptLen
  /\ last_ask.result.status = "AssertionError"
  /\ cache # <<>>

\* C9: a key the cache holds stays in the cache with the same value.
CacheEntriesPermanent ==
  [][\A key \in DOMAIN cache : key \in DOMAIN cache' /\ cache'[key] = cache[key]]_vars

\* ---- the halving scenario: one summarize call with the default number of
\* ---- rounds, answered by a provider that returns half of what it is given

DefaultMaxIterations == 10

\* the texts of the scenario, ten tokens of the Openai encoding each
HalvingTexts == [1..10 -> {"a", " "}]

\* the token budget of the scenario
HalvingBudget == <<4>>

\* the provider of the scenario: the first half of the tokens of the part
HalvingReply(a, part) == Return(SubSeq(part, 1, token_count(a, part) \div 2))

HalvingInit ==
  /\ api = Openai("gpt-3.5-turbo")
  /\ LlmInit
  /\ RestInit
  /\ args = [text |-> <<>>, token_limit |-> None, separators |-> DefaultSeparators]
  /\ out = NoCall

HalvingSummarize(text) ==
  /\ calls = 0
  /\ Summarize(text, HalvingBudget, LongPrompt, DefaultMaxIterations)

HalvingAsk ==
  /\ frame.pc = "asking"
  /\ SummarizeAsk(HalvingReply(api, Head(frame.parts)))

HalvingNext ==
  \/ \E text \in HalvingTexts : HalvingSummarize(text)
  \/ SummarizeLoop
  \/ HalvingAsk

SpecHalving == HalvingInit /\ [][HalvingNext]_vars

\* C12: under the halving provider, summarize of a ten-token text with budget
\* four asks once per merged segment of each round and returns, within the
\* default ten rounds, a text of at most four tokens.
HalvingConverges ==
  last.op = "summarize" =>
    /\ last.result.status = "return"
    /\ token_count(last.api, last.result.value) <= HalvingBudget[1]
    /\ last.rounds <= DefaultMaxIterations
    /\ last.asks = last.planned

\* C11: when the provider's ask fails inside summarize, the error comes out
\* of summarize, the failing ask writes nothing, and every prompt whose ask
\* completed earlier in the call is in the cache and is a hit when asked again.
FailureKeepsWork ==
  (last.op = "summarize" /\ last.provider_failed) =>
    /\ last.result.status = "InvalidRequestError"
    /\ last.present
    /\ last.servable

\* C13: an ask that passes validation invokes the provider exactly when the
\* cache holds no entry for its key; when the key has an entry the call
\* returns the stored value and leaves the cache as it was.
ProviderOnlyOnMiss ==
  [][(AskStep /\ valid_prompt(last_ask'.prompt)) =>
       /\ last_ask'.invoked <=> (last_ask'.key \notin DOMAIN cache)
       /\ (last_ask'.key \in DOMAIN cache) =>
             /\ last_ask'.result = Return(cache[last_ask'.key])
             /\ cache' = cache]_vars

\* the three counters of an identity add up
Balanced(cnt, a) ==
  Count(cnt, counter_name(a, ""))
    = Count(cnt, counter_name(a, "hit")) + Count(cnt, counter_name(a, "miss"))

\* an ask that passed validation: the total and one of hit / miss go up by one
CountedOnce(a) ==
  /\ Count(counters', counter_name(a, "")) = Count(counters, counter_name(a, "")) + 1
  /\ \/ /\ Count(counters', counter_name(a, "hit"))
             = Count(counters, counter_name(a, "hit")) + 1
        /\ Count(counters', counter_name(a, "miss"))
             = Count(counters, counter_name(a, "miss"))
     \/ /\ Count(counters', counter_name(a, "hit"))
             = Count(counters, counter_name(a, "hit"))
        /\ Count(counters', counter_name(a, "miss"))
             = Count(counters, counter_name(a, "miss")) + 1
  /\ \A name \in DOMAIN counters' : name[2] = repr(a)

\* C14: the counters start empty; an ask that passes validation adds one to
\* the total of its identity and one to exactly one of its hit and miss
\* counters, nothing else changes a counter of an Llm object (a newly
\* constructed one starts empty again), and in
\* every state, also after a failed provider call, total = hit + miss.
CounterAccounting ==
  /\ counters = <<>>
  /\ [](\A a \in Apis : Balanced(counters, a))
  /\ [][IF AskStep /\ valid_prompt(last_ask'.prompt)
        THEN CountedOnce(api)
        ELSE \/ counters' = counters
             \/ /\ frame = Idle /\ frame' = Idle
                /\ calls' # calls /\ ask_count' = ask_count
                /\ counters' = <<>>]_vars

\* an ask whose provider call failed, after a hit and a miss were counted
CounterAccountingWitness ==
  /\ last_ask.op = "ask"
  /\ last_ask.invoked
  /\ last_ask.result.status = "InvalidRequestError"
  /\ Count(counters, counter_name(api, "hit")) >= 1
  /\ Count(counters, counter_name(api, "miss")) >= 2
  /\ Balanced(counters, api)

\* the replies with a blank line between each two
RECURSIVE BlankLineJoined(_)
BlankLineJoined(replies) ==
  IF Len(replies) <= 1 THEN (IF replies = <<>> THEN <<>> ELSE replies[1])
  ELSE BlankLineJoined(SubSeq(replies, 1, Len(replies) - 1))
         \o <<"\n", "\n">> \o replies[Len(replies)]

\* a round starts: the text is over the limit and the segments of the round
\* are what split_text returns for it
RoundStarts ==
  (frame.pc = "loop" /\ frame'.pc = "asking") =>
    /\ ~fits(api, frame.text, frame.token_limit)
    /\ frame'.segments
         = split_text(api, frame.text, <<frame.token_limit>>, DefaultSeparators).value
    /\ frame'.replies = <<>>
    /\ ~AskStep

\* an ask of a round is for the first segment not yet asked, and its reply
\* is put after the replies so far; the last one ends the round
RoundAsks ==
  (AskStep /\ frame.pc = "asking") =>
    LET i == Len(frame.replies) + 1
        replies == Append(frame.replies, last_ask'.result.value)
    IN  /\ i <= Len(frame.segments)
        /\ last_ask'.prompt = frame.prompt \o <<" ">> \o frame.segments[i]
        /\ last_ask'.result.status = "return" =>
              IF i < Len(frame.segments)
              THEN /\ frame'.pc = "asking"
                   /\ frame'.segments = frame.segments
                   /\ frame'.replies = replies
              ELSE /\ frame'.pc = "loop"
                   /\ frame'.text = BlankLineJoined(replies)

\* C15: a round of summarize is entered only with a text over the limit; it
\* asks once per segment of split_text, one at a time and in segment order,
\* each time with the prompt, a space and the segment, and the next text is
\* the replies in that order with "\n\n" between them.
RoundStructure == [][RoundStarts /\ RoundAsks]_vars

\* a round of two segments has ended and its two replies are the new text
RoundStructureWitness ==
  /\ frame.pc = "loop"
  /\ frame.rounds = 1
  /\ last_ask.op = "ask"
  /\ last_ask.result = Return(<<"a">>)
  /\ frame.text = <<"a", "\n", "\n", "a">>

(***************************************************************************)
(* Two callers run Llm.ask with the same prompt at the same time, each     *)
(* through its own Llm object on the same cache directory. A caller's      *)
(* steps are the points where it touches what the two share: the           *)
(* cache.get of line 99, the provider call of line 107 and the cache       *)
(* store of line 114.                                                      *)
(***************************************************************************)
Callers == {1, 2}

ConcurrentPrompts == {p \in AskPrompts \cup Prompts : valid_prompt(p)}

\* a caller that has entered Llm.ask and passed the assert of line 96
Caller(prompt) ==
  [pc |-> "get", prompt |-> prompt, result |-> None, counters |-> <<>>,
   invoked |-> FALSE, write_no |-> 0]

ConcurrentInit ==
  /\ api \in Apis
  /\ LlmInit
  /\ search = Idle
  /\ args = [text |-> <<>>, token_limit |-> None, separators |-> DefaultSeparators]
  /\ out = NoCall
  /\ threads \in {[t \in Callers |-> Caller(prompt)] : prompt \in ConcurrentPrompts}

\* lines 98-106: the lookup, the total counter and the hit or miss counter
ThreadGet(t) ==
  /\ threads[t].pc = "get"
  /\ LET result == cache_get(cache, cache_key(api, threads[t].prompt))
         total == increment_counter(threads[t].counters, counter_name(api, ""))
     IN  threads' = [threads EXCEPT ![t] =
           IF Truthy(result)
           THEN [@ EXCEPT !.pc = "set", !.result = result,
                          !.counters = increment_counter(total, counter_name(api, "hit"))]
           ELSE [@ EXCEPT !.pc = "provider",
                          !.counters = increment_counter(total, counter_name(api, "miss"))]]
  /\ UNCHANGED <<api, llmVars, splitVars, search>>

\* line 107: the provider answers or raises
ThreadProvider(t, reply) ==
  /\ threads[t].pc = "provider"
  /\ threads' = [threads EXCEPT ![t] =
       IF reply.status = "return"
       THEN [@ EXCEPT !.pc = "set", !.result = reply.value, !.invoked = TRUE]
       ELSE [@ EXCEPT !.pc = "raised", !.invoked = TRUE]]
  /\ provider_asks' = provider_asks + 1
  /\ UNCHANGED <<api, cache, counters, frame, ask_count, last_ask, last, calls,
                 splitVars, search>>

\* lines 114-116: the store and the return
ThreadSet(t) ==
  /\ threads[t].pc = "set"
  /\ cache' = cache_set(cache, cache_key(api, threads[t].prompt), threads[t].result)
  /\ threads' = [threads EXCEPT ![t] =
       [@ EXCEPT !.pc = "returned",
                 !.write_no = 1 + Cardinality({u \in Callers : threads[u].pc = "returned"})]]
  /\ UNCHANGED <<api, counters, frame, provider_asks, ask_count, last_ask, last, calls,
                 splitVars, search>>

ConcurrentNext ==
  \/ \E t \in Callers : ThreadGet(t)
  \/ \E t \in Callers, reply \in Replies : ThreadProvider(t, reply)
  \/ \E t \in Callers : ThreadSet(t)

SpecConcurrent == ConcurrentInit /\ [][ConcurrentNext]_vars

\* the callers that have stored their result
Stored == {t \in Callers : threads[t].pc = "returned"}

\* C17: with two concurrent asks of one key on a cache without it, the
\* cache never holds anything but that key, holds it as soon as a caller
\* has stored, and its value is the whole result of the caller that stored
\* last.
LastWriteWins ==
  LET key == cache_key(api, threads[1].prompt)
  IN  /\ DOMAIN cache \subseteq {key}
      /\ key \in DOMAIN cache <=> Stored # {}
      /\ \A t \in Stored :
           (\A u \in Stored : threads[u].write_no <= threads[t].write_no)
             => cache[key] = threads[t].result

\* both callers missed, both invoked the provider and got different
\* answers, and both have stored
LastWriteWinsWitness ==
  /\ \A t \in Callers : threads[t].pc = "returned" /\ threads[t].invoked
  /\ threads[1].result # threads[2].result
  /\ provider_asks = 2

(***************************************************************************)
(* GptSearch.shorten and GptSearch.summarize of gpt_search.py.  A          *)
(* background is a dict in insertion order: a sequence of records          *)
(* [subject, contents].  self.chat.get_num_tokens is a counter that gives  *)
(* each character or each word of the text a weight in tokens.             *)
(***************************************************************************)
TokenWeight == 1000
MaxSubjects == 2
MaxSearchCalls == 1

SearchModels == {"gpt-3.5-turbo", "gpt-4"}

\* the dict max_token_count of gpt_search.py
model_max_token_count(model) ==
  CASE model = "gpt-4" -> 8192
    [] model = "gpt-3.5-turbo" -> 4097

TokenCounters == [unit : {"word", "char"}, weight : {TokenWeight, 5 * TokenWeight}]

\* GptSearch.token_count
get_num_tokens(counter, text) ==
  counter.weight * (IF counter.unit = "char" THEN Len(text) ELSE WordCount(text))

Subjects == {<<"s">>, <<"t">>}

SearchContents ==
  {<<>>, <<"a">>, <<"a", " ", "a", " ", "a">>,
   <<"a", " ", "a", " ", "a", " ", "a", " ", "a">>}

Backgrounds ==
  {b \in UNION {[1..n -> [subject : Subjects, contents : SearchContents]] :
                  n \in 0..MaxSubjects} :
     \A i, j \in 1..Len(b) : b[i].subject = b[j].subject => i = j}

\* GptSearch.background_text
background_text(background) ==
  join([i \in 1..Len(background) |->
          background[i].subject \o <<":", "\n">> \o background[i].contents])

\* f"Concisely summarize the facts about {subject}:\n" + contents
summarize_prompt(subject, contents) ==
  <<"C", "o", "n", "c", "i", "s", "e", "l", "y", " ",
    "s", "u", "m", "m", "a", "r", "i", "z", "e", " ",
    "t", "h", "e", " ", "f", "a", "c", "t", "s", " ",
    "a", "b", "o", "u", "t", " ">> \o subject \o <<":", "\n">> \o contents

\* a test that leaves no room for the prompt
background_fits_limit(counter, model, background) ==
  get_num_tokens(counter, background_text(background)) <= model_max_token_count(model)

\* the return test of GptSearch.summarize
background_fits(counter, model, background) ==
  get_num_tokens(counter, background_text(background))
    <= model_max_token_count(model) - 500

\* a truncation that keeps the last nine tenths
truncate_front(text) == SubSeq(text, Len(text) - (Len(text) * 9) \div 10 + 1, Len(text))

\* text[:int(len(text) * .9)]
truncate(text) == SubSeq(text, 1, (Len(text) * 9) \div 10)

\* the while test of GptSearch.shorten
over_limit(counter, model, text) ==
  get_num_tokens(counter, text) > model_max_token_count(model)

SearchInit ==
  /\ api \in {Openai(model) : model \in SearchModels}
  /\ LlmInit
  /\ RestInit
  /\ args = [text |-> <<>>, token_limit |-> None, separators |-> DefaultSeparators]
  /\ out = NoCall

\* a method of GptSearch is called with a background
SearchCall(op, background, counter) ==
  /\ search.pc \in {"idle", "returned"}
  /\ calls < MaxSearchCalls
  /\ search' = [pc |-> op, op |-> op, counter |-> counter, background |-> background,
                original |-> background, i |-> 1, asked |-> <<>>, status |-> "running"]
  /\ calls' = calls + 1
  /\ UNCHANGED <<api, cache, counters, frame, provider_asks, ask_count, last_ask, last,
                 splitVars, threads>>

SearchSummarize(background, counter) == SearchCall("summarize", background, counter)

SearchShorten(background, counter) == SearchCall("shorten", background, counter)

\* one iteration of the for loop of GptSearch.summarize, or its end
SearchSummarizeStep(reply) ==
  /\ search.pc = "summarize"
  /\ LET i == search.i
         background == search.background
     IN  IF i > Len(background)
            \/ (background[i].contents # <<>>
                  /\ background_fits(search.counter, api.model, background))
         THEN /\ search' = [search EXCEPT !.pc = "returned", !.status = "return"]
              /\ UNCHANGED <<cache, counters, provider_asks, ask_count, last_ask>>
         ELSE IF background[i].contents = <<>>
         THEN /\ search' = [search EXCEPT !.i = i + 1]
              /\ UNCHANGED <<cache, counters, provider_asks, ask_count, last_ask>>
         ELSE LET prompt == summarize_prompt(background[i].subject, background[i].contents)
                  r == ask(prompt, reply)
              IN  /\ cache' = r.cache
                  /\ counters' = r.counters
                  /\ provider_asks' = provider_asks + (IF r.invoked THEN 1 ELSE 0)
                  /\ ask_count' = ask_count + 1
                  /\ last_ask' = AskRecord(prompt, r)
                  /\ search' =
                       IF r.result.status # "return"
                       THEN [search EXCEPT !.pc = "returned", !.status = r.result.status,
                                           !.asked = Append(@, i)]
                       ELSE [search EXCEPT !.background[i].contents = r.result.value,
                                           !.i = i + 1, !.asked = Append(@, i)]
  /\ UNCHANGED <<api, frame, last, calls, splitVars, threads>>

\* GptSearch.shorten: the head of the for loop, then the while loop of a
\* subject, one test and one truncation at a time
SearchShortenStep ==
  /\ search.pc \in {"shorten", "while"}
  /\ LET i == search.i
         background == search.background
     IN  search' =
           IF search.pc = "shorten"
           THEN IF i > Len(background)
                THEN [search EXCEPT !.pc = "returned", !.status = "return"]
                ELSE IF background[i].contents = <<>>
                THEN [search EXCEPT !.i = i + 1]
                ELSE [search EXCEPT !.pc = "while"]
           ELSE IF over_limit(search.counter, api.model, background[i].contents)
           THEN [search EXCEPT !.background[i].contents = truncate(@)]
           ELSE [search EXCEPT !.pc = "shorten", !.i = i + 1]
  /\ UNCHANGED <<api, llmVars, splitVars, threads>>

SearchNext ==
  \/ \E background \in Backgrounds, counter \in TokenCounters :
       SearchSummarize(background, counter)
  \/ \E background \in Backgrounds, counter \in TokenCounters :
       SearchShorten(background, counter)
  \/ \E reply \in Replies : SearchSummarizeStep(reply)
  \/ SearchShortenStep

SpecSearch == SearchInit /\ [][SearchNext]_vars

(***************************************************************************)
(* Properties of GptSearch.summarize and GptSearch.shorten, under          *)
(* SpecSearch.                                                             *)
(***************************************************************************)
Asked == {search.asked[k] : k \in 1..Len(search.asked)}

\* the background text is within max_token_count[model] - 500 tokens
WithinReserve(background) ==
  get_num_tokens(search.counter, background_text(background)) + 500
    <= model_max_token_count(api.model)

\* during and after a call of summarize: the subjects asked about were
\* non-empty and were taken in dictionary order, each once; every other
\* subject is as it was given; a background that fitted was not touched
OnePassShape ==
  (search.pc # "idle" /\ search.op = "summarize") =>
    /\ Len(search.background) = Len(search.original)
    /\ \A k \in 1..(Len(search.asked) - 1) : search.asked[k] < search.asked[k + 1]
    /\ \A j \in Asked : j < search.i \/ search.pc = "returned"
    /\ \A j \in Asked : search.original[j].contents # <<>>
    /\ \A j \in 1..Len(search.background) :
         /\ search.background[j].subject = search.original[j].subject
         /\ j \notin Asked => search.background[j] = search.original[j]
    /\ WithinReserve(search.original) =>
         search.asked = <<>> /\ search.background = search.original

\* a step of summarize goes on to the next subject or returns; it asks
\* exactly when it is at a non-empty subject and the background does not
\* fit, with the prompt for that subject; when the background fits at a
\* non-empty subject it returns at once
OnePassStep ==
  search.pc = "summarize" =>
    LET i == search.i
        here == i <= Len(search.background) /\ search.background[i].contents # <<>>
    IN  /\ search'.pc = "returned" \/ (search'.pc = "summarize" /\ search'.i = i + 1)
        /\ AskStep <=> (here /\ ~WithinReserve(search.background))
        /\ AskStep =>
              /\ last_ask'.prompt = summarize_prompt(search.background[i].subject,
                                                    search.background[i].contents)
              /\ search'.asked = Append(search.asked, i)
              /\ last_ask'.result.status = "return" =>
                    search'.background[i].contents = last_ask'.result.value
        /\ (here /\ WithinReserve(search.background)) =>
              /\ search'.pc = "returned"
              /\ search'.background = search.background

\* C18: GptSearch.summarize takes the subjects in dictionary order in one
\* pass, asks at most once per non-empty subject and only while the
\* background text exceeds max_token_count[model] - 500, returns at once
\* when it fits, leaves the subjects it did not ask about unchanged, and
\* ends after the pass even if the text is still over the limit.
SearchOnePass == []OnePassShape /\ [][OnePassStep]_vars

\* summarize asked about both subjects and returned a background that is
\* still over the limit
SearchOnePassWitness ==
  /\ search.pc = "returned"
  /\ search.op = "summarize"
  /\ search.status = "return"
  /\ Len(search.asked) = 2
  /\ ~WithinReserve(search.background)

IsPrefix(s, t) == Len(s) <= Len(t) /\ s = SubSeq(t, 1, Len(s))

\* during and after a call of shorten: every text is a prefix of the one
\* given; the subjects after the current one are untouched; a subject the
\* loop has left is within the limit, and unchanged if it was within it
ShortenShape ==
  (search.pc # "idle" /\ search.op = "shorten") =>
    /\ Len(search.background) = Len(search.original)
    /\ search.pc = "returned" => search.i = Len(search.background) + 1
    /\ \A j \in 1..Len(search.background) :
         /\ search.background[j].subject = search.original[j].subject
         /\ IsPrefix(search.background[j].contents, search.original[j].contents)
         /\ j > search.i => search.background[j] = search.original[j]
         /\ j < search.i =>
               /\ get_num_tokens(search.counter, search.background[j].contents)
                    <= model_max_token_count(api.model)
               /\ get_num_tokens(search.counter, search.original[j].contents)
                    <= model_max_token_count(api.model)
                    => search.background[j] = search.original[j]

\* a step of shorten brings the return nearer: it goes to the next subject,
\* enters the while loop of a subject, or cuts a non-empty text that is over
\* the limit down to its first int(0.9 * len) characters, which are fewer
ShortenStep ==
  search.pc \in {"shorten", "while"} =>
    \/ search'.pc = "returned"
    \/ search'.i = search.i + 1 /\ search'.pc = "shorten"
    \/ /\ search.pc = "shorten"
       /\ search'.pc = "while"
       /\ search'.i = search.i
       /\ search'.background = search.background
    \/ /\ search.pc = "while"
       /\ search'.pc = "while"
       /\ search'.i = search.i
       /\ LET before == search.background[search.i].contents
              after == search'.background[search.i].contents
          IN  /\ before # <<>>
              /\ get_num_tokens(search.counter, before) > model_max_token_count(api.model)
              /\ Len(after) < Len(before)
              /\ 10 * Len(after) <= 9 * Len(before)
              /\ 10 * (Len(after) + 1) > 9 * Len(before)

\* C19: GptSearch.shorten terminates: each of its steps moves on or cuts the
\* current text to its first int(0.9 * len) characters, strictly fewer; on
\* return every text is a prefix of the original with a token count within
\* max_token_count[model], and a text that was within it is unchanged.
ShortenTerminates == []ShortenShape /\ [][ShortenStep]_vars

\* shorten returned after cutting one text more than once, and not to ""
ShortenTerminatesWitness ==
  /\ search.pc = "returned"
  /\ search.op = "shorten"
  /\ \E j \in 1..Len(search.background) :
       /\ search.background[j].contents # <<>>
       /\ Len(search.background[j].contents) + 2 <= Len(search.original[j].contents)

====
